---- MODULE Spec2Model ----
(***************************************************************************)
(* 2ndCTO analysis pipeline: the API handlers that queue a repository, the *)
(* Bull queues (repo-ingestion, code-analysis), the ingestion handler      *)
(* (src/ingestion/clone.js), the analysis handler                          *)
(* (CodeAnalyzer.analyzeRepo) and the tables and clone directories they    *)
(* share.  Every await of a handler is a step of its own, so that handlers *)
(* of different jobs interleave as they do on the event loop.              *)
(***************************************************************************)
EXTENDS Integers, Sequences, FiniteSets, TLC

\* ---------------------------------------------------------------- bounds
MaxRequests == 2        \* API calls that queue an ingestion job
MaxIngestRuns == 3      \* executions of the ingestion handler
MaxAnalysisRuns == 2    \* executions of the analysis handler
MaxTimeouts == 1        \* job timeouts fired by the queue
MaxCount == 3           \* largest per-severity count fed to the risk formula
MaxSchedJobs == 3       \* jobs ever added to the two queues (SpecSched)
MaxBusAuthors == 7      \* authors of an ownership distribution (SpecBus)
MaxOwned == 2           \* files one author primarily owns (SpecBus)
MaxLogLines == 5        \* lines of a git log (SpecGit)
MaxScanLines == 1       \* lines of a scanned text (SpecScan)
MaxLineLen == 3         \* tokens of a line of a scanned text (SpecScan)
MaxRuleLines == 2       \* lines of a text scanned with every rule (SpecRules)
MaxRuleLineLen == 2     \* tokens of a line of such a text (SpecRules)
MaxDepth == 2           \* directories above a file of the tree (SpecGlob)
MaxGlobbed == 1001      \* files of one kind in a tree (SpecFiles)
MaxNodes == 3           \* nodes of a syntax tree (SpecAst)
MaxRows == 3            \* code_files rows of an analysed repository (SpecOrder)
MaxNameLen == 4         \* characters of an owner or repository name (SpecPath)
MaxReingests == 3       \* ingestions of one repository (SpecReingest)

\* ------------------------------------------------------- program constants
IngestAttempts == 3     \* queueRepoIngestion: attempts: 3
AnalysisAttempts == 2   \* queueAnalysis: attempts: 2

Repos == {1}
JobIds == 1..MaxRequests
IngRuns == 1..MaxIngestRuns
AnaRuns == 1..MaxAnalysisRuns

Severities == {"critical", "high", "medium", "low"}

\* The checked-out tree of a repository, in the order glob returns it
\* (the '**/*.js' pattern comes before '**/*.go').
Upstream(r) == <<"a.js", "b.go">>

\* detectLanguage: extension -> language tag
detectLanguage(p) ==
  CASE p = "a.js" -> "javascript"
    [] p = "b.go" -> "go"
    [] OTHER -> "unknown"

\* What the scanner reports for a file's content: (rule, line, severity).
scanFile(p) ==
  CASE p = "a.js" -> {[file |-> p, rule |-> "SEC001", line |-> 1, severity |-> "critical"],
                      [file |-> p, rule |-> "SEC010", line |-> 2, severity |-> "medium"]}
    [] p = "b.go" -> {[file |-> p, rule |-> "SEC002", line |-> 1, severity |-> "high"]}
    [] OTHER -> {}

\* What the extractor returns for a file's content: entity names.
extractFromFile(p) ==
  CASE p = "a.js" -> {[file |-> p, name |-> "main", type |-> "function"]}
    [] OTHER -> {}

\* path.join(CLONE_DIR, `${repo.owner}-${repo.name}`)
RepoOwner(r) == "acme"
RepoName(r) == "app"
ClonePath(r) == RepoOwner(r) \o "-" \o RepoName(r)
Dirs == {ClonePath(r) : r \in Repos}

NoError == <<"", 0, "">>
NoDir == [by |-> 0, files |-> {}]
NoPath == ""

VARIABLES
  repositories,      \* table repositories: analysis_status, risk_score, last_error
  code_files,        \* table code_files: stored paths per repository
  code_entities,     \* table code_entities (rows tagged with the inserting run)
  security_findings, \* table security_findings (rows tagged with the inserting run)
  disk,              \* clone directories under CLONE_DIR
  repoQueue,         \* Bull queue repo-ingestion
  analysisQueue,     \* Bull queue code-analysis
  ing,               \* executions of the ingestion handler
  ana,               \* executions of the analysis handler
  requests,          \* API calls made so far
  timeouts,          \* job timeouts fired so far
  failCause,         \* history: the error of the latest transition to failed
  lastCompleted,     \* history: the analysis run that last wrote completed
  summary,           \* input of the risk formula (SpecRisk)
  score,             \* output of the risk formula (SpecRisk)
  file,              \* a file of the checked-out tree (SpecStore)
  stage,             \* how far that file has got (SpecStore)
  stored,            \* its code_files row, if any (SpecStore)
  found,             \* what the scanner reported for it (SpecStore)
  repo_metrics,      \* table repo_metrics: the rows of each repository, oldest first
  jobs,              \* the jobs of both Bull queues (SpecSched)
  executing,         \* handler executions in progress (SpecSched)
  fileOwnership,     \* input of calculateBusFactor (SpecBus)
  authorStats,       \* input of calculateBusFactor (SpecBus)
  busFactor,         \* what calculateBusFactor returned (SpecBus)
  logData,           \* the output of git log, split into lines (SpecGit)
  fault,             \* the step of GitParser.analyzeRepo that throws, if any (SpecGit)
  gitResult,         \* how GitParser.analyzeRepo ended (SpecGit)
  content,           \* the text given to findMatches, as lines (SpecScan)
  matches,           \* what findMatches returned (SpecScan)
  scanned,           \* what scanFile returned (SpecRules)
  candidate,         \* a path of the checked-out tree (SpecGlob)
  selected,          \* whether getCodeFiles' globs return it (SpecGlob)
  tree,              \* how many files of each kind the checked-out tree holds (SpecFiles)
  files,             \* what getCodeFiles returned (SpecFiles)
  ast,               \* the syntax tree the parser returned, as its nodes (SpecAst)
  extracted,         \* what extractFromFile returned (SpecAst)
  rows,              \* the code_files rows of a repository, in the order the select returns them (SpecOrder)
  faulty,            \* the paths for which saving entities or findings fails (SpecOrder)
  outcome,           \* what CodeAnalyzer.analyzeRepo returned (SpecOrder)
  accepted,          \* two repositories the validators accept, as (owner, name) pairs (SpecPath)
  cloneDirs,         \* the clone directory of each (SpecPath)
  remote,            \* the code files of the repository on GitHub (SpecReingest)
  fileRows,          \* the repository's code_files rows (SpecReingest)
  revision,          \* how many ingestions have completed (SpecReingest)
  cloned,            \* the files the latest ingestion selected (SpecReingest)
  analysed           \* the paths the analysis after it processed (SpecReingest)

pvars == <<repositories, code_files, code_entities, security_findings, disk,
           repoQueue, analysisQueue, ing, ana, requests, timeouts,
           failCause, lastCompleted>>
riskVars == <<summary, score>>
storeVars == <<file, stage, stored, found>>
schedVars == <<jobs, executing>>
busVars == <<fileOwnership, authorStats, busFactor>>
gitVars == <<logData, fault, gitResult>>
scanVars == <<content, matches, scanned>>
baseAux == <<riskVars, storeVars, repo_metrics, schedVars, busVars, gitVars, scanVars>>
\* variables of the further small specifications
globVars == <<candidate, selected>>
filesVars == <<tree, files>>
astVars == <<ast, extracted>>
orderVars == <<rows, faulty, outcome>>
pathVars == <<accepted, cloneDirs>>
reingestVars == <<remote, fileRows, revision, cloned, analysed>>
extVars == <<globVars, filesVars, astVars, orderVars, pathVars, reingestVars>>
globRest == <<filesVars, astVars, orderVars, pathVars, reingestVars>>
filesRest == <<globVars, astVars, orderVars, pathVars, reingestVars>>
astRest == <<globVars, filesVars, orderVars, pathVars, reingestVars>>
orderRest == <<globVars, filesVars, astVars, pathVars, reingestVars>>
pathRest == <<globVars, filesVars, astVars, orderVars, reingestVars>>
reingestRest == <<globVars, filesVars, astVars, orderVars, pathVars>>
IdleGlob == candidate = <<>> /\ selected = <<>>
IdleFiles == tree = <<>> /\ files = <<>>
IdleAst == ast = <<>> /\ extracted = <<>>
IdleOrder == rows = <<>> /\ faulty = {} /\ outcome = <<>>
IdlePath == accepted = <<>> /\ cloneDirs = <<>>
IdleReingest == remote = {} /\ fileRows = {} /\ revision = 0 /\ cloned = <<>> /\ analysed = <<>>
IdleExt == IdleGlob /\ IdleFiles /\ IdleAst /\ IdleOrder /\ IdlePath /\ IdleReingest
globRestIdle == IdleFiles /\ IdleAst /\ IdleOrder /\ IdlePath /\ IdleReingest
filesRestIdle == IdleGlob /\ IdleAst /\ IdleOrder /\ IdlePath /\ IdleReingest
astRestIdle == IdleGlob /\ IdleFiles /\ IdleOrder /\ IdlePath /\ IdleReingest
orderRestIdle == IdleGlob /\ IdleFiles /\ IdleAst /\ IdlePath /\ IdleReingest
pathRestIdle == IdleGlob /\ IdleFiles /\ IdleAst /\ IdleOrder /\ IdleReingest
reingestRestIdle == IdleGlob /\ IdleFiles /\ IdleAst /\ IdleOrder /\ IdlePath
\* (end of the variable groups)
aux == <<baseAux, extVars>>
vars == <<pvars, aux>>

Range(s) == {s[i] : i \in 1..Len(s)}
Min(a, b) == IF a < b THEN a ELSE b

\* ------------------------------------------------------------ github.js
\* `if (error)` is a truthiness test: null and the empty string leave
\* last_error alone.
\* (variant that forgets the error argument)
updateRepoStatus_DropsError(tbl, id, status, error) ==
  [tbl EXCEPT ![id] = [@ EXCEPT !.analysis_status = status]]

updateRepoStatus(tbl, id, status, error) ==
  [tbl EXCEPT ![id] =
     [@ EXCEPT !.analysis_status = status,
               !.last_error = IF error[3] # "" THEN error ELSE @]]

\* ------------------------------------------------------------- queue/index.js
NoJob == [state |-> "none", repoId |-> 0, repoPath |-> NoPath,
          attemptsMade |-> 0, failedReason |-> NoError]

FreeSlot(q) == {j \in DOMAIN q : q[j].state = "none"}
NextSlot(q) == CHOOSE j \in FreeSlot(q) : \A k \in FreeSlot(q) : j <= k

\* queue.add({repoId, repoPath}, opts)
QueueAdd(q, repoId, repoPath) ==
  [q EXCEPT ![NextSlot(q)] = [state |-> "waiting", repoId |-> repoId,
                              repoPath |-> repoPath, attemptsMade |-> 0,
                              failedReason |-> NoError]]

\* Bull: an attempt that throws (or times out) is retried while attempts remain.
AttemptFailed(q, j, attempts, reason) ==
  [q EXCEPT ![j] = [@ EXCEPT !.failedReason = reason,
                             !.state = IF q[j].attemptsMade < attempts
                                       THEN "waiting" ELSE "failed"]]

AttemptCompleted(q, j) == [q EXCEPT ![j].state = "completed"]

\* -------------------------------------------------- analysis (git-parser.js)
CountSev(findings, sev) == Cardinality({f \in findings : f.severity = sev})

\* SecurityScanner.generateReport: the summary part
generateReport(findings) ==
  [critical |-> CountSev(findings, "critical"),
   high     |-> CountSev(findings, "high"),
   medium   |-> CountSev(findings, "medium"),
   low      |-> CountSev(findings, "low")]

\* (variant without the cap)
calculateRiskScore_NoCap(s) ==
  s.critical * 40 + s.high * 20 + s.medium * 5 + s.low

\* CodeAnalyzer.calculateRiskScore
calculateRiskScore(s) ==
  Min(100, s.critical * 40 + s.high * 20 + s.medium * 5 + s.low)

\* ---------------------------------------------------------------- Init
IdleIng == [pc |-> "idle", job |-> 0, repoId |-> 0, repoPath |-> NoPath,
            files |-> <<>>, timedOut |-> FALSE]
IdleAna == [pc |-> "idle", job |-> 0, repoId |-> 0, files |-> <<>>,
            allFindings |-> {}, timedOut |-> FALSE]
\* A handler execution that has returned or thrown keeps no local state.
DoneIng == [IdleIng EXCEPT !.pc = "done"]
DoneAna == [IdleAna EXCEPT !.pc = "done"]

InitPipeline ==
  /\ repositories = [r \in Repos |-> [analysis_status |-> "pending",
                                     risk_score |-> <<>>,
                                     last_error |-> NoError]]
  /\ code_files = [r \in Repos |-> {}]
  /\ code_entities = {}
  /\ security_findings = {}
  /\ disk = [d \in Dirs |-> NoDir]
  /\ repoQueue = [j \in JobIds |-> NoJob]
  /\ analysisQueue = [j \in IngRuns |-> NoJob]
  /\ ing = [h \in IngRuns |-> IdleIng]
  /\ ana = [a \in AnaRuns |-> IdleAna]
  /\ requests = 0
  /\ timeouts = 0
  /\ failCause = [r \in Repos |-> NoError]
  /\ lastCompleted = [r \in Repos |-> 0]
  /\ repo_metrics = [r \in Repos |-> <<>>]

ZeroSummary == [critical |-> 0, high |-> 0, medium |-> 0, low |-> 0]

\* The state of the variables a specification does not use.
IdleRisk == summary = ZeroSummary /\ score = <<>>
NoContent == [length |-> 0, hits |-> {}]
NoFile == [chars |-> 0, bytes |-> 0, content |-> NoContent]
IdleStore == file = NoFile /\ stage = "none" /\ stored = <<>> /\ found = {}
SchedJobs == 1..MaxSchedJobs
NoSchedJob == [queue |-> "none", repoId |-> 0, state |-> "none", attemptsMade |-> 0]
IdleSched == jobs = [j \in SchedJobs |-> NoSchedJob] /\ executing = {}
IdleBus == fileOwnership = <<>> /\ authorStats = <<>> /\ busFactor = <<>>
IdleGit == logData = <<>> /\ fault = "none" /\ gitResult = <<>>
IdleScan == content = <<>> /\ matches = <<>> /\ scanned = <<>>

IdleBase == IdleRisk /\ IdleStore /\ IdleSched /\ IdleBus /\ IdleGit /\ IdleScan

Init ==
  /\ InitPipeline
  /\ IdleExt
  /\ IdleRisk
  /\ IdleStore
  /\ IdleSched
  /\ IdleBus
  /\ IdleGit
  /\ IdleScan

\* ------------------------------------------------------------ api/routes.js
\* POST /repos: createRepo, then queue when the repository is new or failed.
\* A repository that was never queued has the schema default 'pending'.
PostRepos(r, addOk) ==
  /\ requests < MaxRequests
  /\ repositories[r].analysis_status \in {"pending", "failed"}
  /\ requests' = requests + 1
  /\ repositories' = updateRepoStatus(repositories, r, "queued", NoError)
  /\ repoQueue' = IF addOk THEN QueueAdd(repoQueue, r, NoPath) ELSE repoQueue
  /\ UNCHANGED <<code_files, code_entities, security_findings, disk,
                 analysisQueue, ing, ana, timeouts, failCause, lastCompleted>>
  /\ UNCHANGED aux

\* POST /repos/:id/analyze: no look at the current status.
PostAnalyze(r, addOk) ==
  /\ requests < MaxRequests
  /\ requests' = requests + 1
  /\ repositories' = updateRepoStatus(repositories, r, "queued", NoError)
  /\ repoQueue' = IF addOk THEN QueueAdd(repoQueue, r, NoPath) ELSE repoQueue
  /\ UNCHANGED <<code_files, code_entities, security_findings, disk,
                 analysisQueue, ing, ana, timeouts, failCause, lastCompleted>>
  /\ UNCHANGED aux

\* ------------------------------------------- worker.js + ingestion/clone.js
IdleRuns(t) == {h \in DOMAIN t : t[h].pc = "idle"}
NextRun(t) == CHOOSE h \in IdleRuns(t) : \A k \in IdleRuns(t) : h <= k
Running(t, h) == t[h].pc \notin {"idle", "done"}

IngMsg(h, text) == <<"ingest", h, text>>
AnaMsg(a, text) == <<"analysis", a, text>>

\* repoQueue.process (one job at a time): the handler starts, reads the
\* repository and sets 'cloning'.
IngestBegin(j) ==
  /\ repoQueue[j].state = "waiting"
  /\ \A k \in JobIds : repoQueue[k].state # "active"
  /\ IdleRuns(ing) # {}
  /\ repoQueue' = [repoQueue EXCEPT ![j].state = "active",
                                    ![j].attemptsMade = @ + 1]
  /\ ing' = [ing EXCEPT ![NextRun(ing)] =
               [pc |-> "rm", job |-> j, repoId |-> repoQueue[j].repoId,
                repoPath |-> ClonePath(repoQueue[j].repoId),
                files |-> <<>>, timedOut |-> FALSE]]
  /\ repositories' = updateRepoStatus(repositories, repoQueue[j].repoId,
                                      "cloning", NoError)
  /\ UNCHANGED <<code_files, code_entities, security_findings, disk,
                 analysisQueue, ana, requests, timeouts, failCause, lastCompleted>>
  /\ UNCHANGED aux

\* catch of ingestRepository: status failed with the message, rethrow; the
\* worker rethrows and Bull fails the attempt (unless it already timed out).
IngestCatch(h, text) ==
  /\ repositories' = updateRepoStatus(repositories, ing[h].repoId, "failed",
                                      IngMsg(h, text))
  /\ failCause' = [failCause EXCEPT ![ing[h].repoId] = IngMsg(h, text)]
  /\ repoQueue' = IF ing[h].timedOut THEN repoQueue
                  ELSE AttemptFailed(repoQueue, ing[h].job, IngestAttempts,
                                     IngMsg(h, text))
  /\ ing' = [ing EXCEPT ![h] = DoneIng]

\* cloneRepository: fs.rm(repoPath, {recursive, force})
CloneRm(h) ==
  /\ ing[h].pc = "rm"
  /\ disk' = [disk EXCEPT ![ing[h].repoPath] = NoDir]
  /\ ing' = [ing EXCEPT ![h].pc = "clone"]
  /\ UNCHANGED <<repositories, code_files, code_entities, security_findings,
                 repoQueue, analysisQueue, ana, requests, timeouts, failCause,
                 lastCompleted>>
  /\ UNCHANGED aux

\* cloneRepository: git.clone; it fails on a network error and whenever the
\* destination exists already.
CloneGit(h, ok) ==
  /\ ing[h].pc = "clone"
  /\ IF ok /\ disk[ing[h].repoPath] = NoDir
     THEN /\ disk' = [disk EXCEPT ![ing[h].repoPath] =
                        [by |-> h, files |-> Range(Upstream(ing[h].repoId))]]
          /\ ing' = [ing EXCEPT ![h].pc = "parsing"]
          /\ UNCHANGED <<repositories, repoQueue, failCause>>
     ELSE /\ IngestCatch(h, "clone failed")
          /\ UNCHANGED disk
  /\ UNCHANGED <<code_files, code_entities, security_findings, analysisQueue,
                 ana, requests, timeouts, lastCompleted>>
  /\ UNCHANGED aux

\* updateRepoStatus(repoId, 'parsing')
SetParsing(h) ==
  /\ ing[h].pc = "parsing"
  /\ repositories' = updateRepoStatus(repositories, ing[h].repoId, "parsing", NoError)
  /\ ing' = [ing EXCEPT ![h].pc = "discover"]
  /\ UNCHANGED <<code_files, code_entities, security_findings, disk, repoQueue,
                 analysisQueue, ana, requests, timeouts, failCause, lastCompleted>>
  /\ UNCHANGED aux

\* getCodeFiles: glob over the directory as it is now; a file system error throws.
getCodeFiles(r, path) ==
  SelectSeq(Upstream(r), LAMBDA p : p \in disk[path].files)

Discover(h, ok) ==
  /\ ing[h].pc = "discover"
  /\ IF ok
     THEN /\ ing' = [ing EXCEPT ![h].pc = "store",
                                ![h].files = getCodeFiles(ing[h].repoId, ing[h].repoPath)]
          /\ UNCHANGED <<repositories, repoQueue, failCause>>
     ELSE IngestCatch(h, "glob failed")
  /\ UNCHANGED <<code_files, code_entities, security_findings, disk,
                 analysisQueue, ana, requests, timeouts, lastCompleted>>
  /\ UNCHANGED aux

\* One iteration of the store loop: readFile (null when the file is gone),
\* then the upsert keyed by (repo_id, file_path).
StoreFile(h) ==
  /\ ing[h].pc = "store"
  /\ ing[h].files # <<>>
  /\ code_files' =
       IF Head(ing[h].files) \in disk[ing[h].repoPath].files
       THEN [code_files EXCEPT ![ing[h].repoId] = @ \cup {Head(ing[h].files)}]
       ELSE code_files
  /\ ing' = [ing EXCEPT ![h].files = Tail(@)]
  /\ UNCHANGED <<repositories, code_entities, security_findings, disk, repoQueue,
                 analysisQueue, ana, requests, timeouts, failCause, lastCompleted>>
  /\ UNCHANGED aux

\* updateRepoStatus(repoId, 'completed') after the store loop
SetCompleted(h) ==
  /\ ing[h].pc = "store"
  /\ ing[h].files = <<>>
  /\ repositories' = updateRepoStatus(repositories, ing[h].repoId, "completed", NoError)
  /\ ing' = [ing EXCEPT ![h].pc = "cleanup"]
  /\ UNCHANGED <<code_files, code_entities, security_findings, disk, repoQueue,
                 analysisQueue, ana, requests, timeouts, failCause, lastCompleted>>
  /\ UNCHANGED aux

\* Cleanup on the success path: fs.rm(repoPath)
Cleanup(h) ==
  /\ ing[h].pc = "cleanup"
  /\ disk' = [disk EXCEPT ![ing[h].repoPath] = NoDir]
  /\ ing' = [ing EXCEPT ![h].pc = "enqueue"]
  /\ UNCHANGED <<repositories, code_files, code_entities, security_findings,
                 repoQueue, analysisQueue, ana, requests, timeouts, failCause,
                 lastCompleted>>
  /\ UNCHANGED aux

\* worker.js: queueAnalysis(repoId, result.repoPath); the result of
\* ingestRepository has no repoPath, so the job carries repoPath = null.
\* When queueAnalysis throws, the ingestion attempt fails.
EnqueueAnalysis(h, ok) ==
  /\ ing[h].pc = "enqueue"
  /\ ing' = [ing EXCEPT ![h] = DoneIng]
  /\ analysisQueue' = IF ok THEN QueueAdd(analysisQueue, ing[h].repoId, NoPath)
                      ELSE analysisQueue
  /\ repoQueue' =
       IF ing[h].timedOut THEN repoQueue
       ELSE IF ok THEN AttemptCompleted(repoQueue, ing[h].job)
       ELSE AttemptFailed(repoQueue, ing[h].job, IngestAttempts,
                          IngMsg(h, "queue failed"))
  /\ UNCHANGED <<repositories, code_files, code_entities, security_findings, disk,
                 ana, requests, timeouts, failCause, lastCompleted>>
  /\ UNCHANGED aux

\* Bull: the attempt's timeout fires; the attempt fails (and is retried while
\* attempts remain), the handler's promise is not cancelled and runs on.
IngestTimeout(h) ==
  /\ Running(ing, h)
  /\ ~ing[h].timedOut
  /\ timeouts < MaxTimeouts
  /\ timeouts' = timeouts + 1
  /\ ing' = [ing EXCEPT ![h].timedOut = TRUE]
  /\ repoQueue' = AttemptFailed(repoQueue, ing[h].job, IngestAttempts,
                                <<"queue", ing[h].job, "timed out">>)
  /\ UNCHANGED <<repositories, code_files, code_entities, security_findings, disk,
                 analysisQueue, ana, requests, failCause, lastCompleted>>
  /\ UNCHANGED aux

\* ------------------------------------- worker.js + CodeAnalyzer.analyzeRepo
\* analysisQueue.process (one job at a time): the handler starts.
AnalysisBegin(j) ==
  /\ analysisQueue[j].state = "waiting"
  /\ \A k \in DOMAIN analysisQueue : analysisQueue[k].state # "active"
  /\ IdleRuns(ana) # {}
  /\ analysisQueue' = [analysisQueue EXCEPT ![j].state = "active",
                                            ![j].attemptsMade = @ + 1]
  /\ ana' = [ana EXCEPT ![NextRun(ana)] =
               [pc |-> "select", job |-> j, repoId |-> analysisQueue[j].repoId,
                files |-> <<>>, allFindings |-> {}, timedOut |-> FALSE]]
  /\ UNCHANGED <<repositories, code_files, code_entities, security_findings, disk,
                 repoQueue, ing, requests, timeouts, failCause, lastCompleted>>
  /\ UNCHANGED aux

\* analyzeRepo returns (it never throws): the worker skips the directory
\* cleanup because job.data.repoPath is null, and the attempt completes.
AnalysisReturn(a) ==
  IF ana[a].timedOut THEN analysisQueue
  ELSE AttemptCompleted(analysisQueue, ana[a].job)

\* select * from code_files where repo_id = repoId
\*   error        -> catch: status failed, last_error, return {success: false}
\*   no files     -> return {success: false} with the status untouched
AnalysisSelect(a, ok) ==
  /\ ana[a].pc = "select"
  /\ IF ok
     THEN /\ UNCHANGED <<repositories, failCause>>
          /\ IF code_files[ana[a].repoId] = {}
             THEN /\ ana' = [ana EXCEPT ![a] = DoneAna]
                  /\ analysisQueue' = AnalysisReturn(a)
             ELSE /\ ana' = [ana EXCEPT ![a].pc = "file",
                                        ![a].files =
                                          SelectSeq(Upstream(ana[a].repoId),
                                            LAMBDA p : p \in code_files[ana[a].repoId])]
                  /\ UNCHANGED analysisQueue
     ELSE /\ repositories' = [repositories EXCEPT ![ana[a].repoId] =
                               [@ EXCEPT !.analysis_status = "failed",
                                         !.last_error = AnaMsg(a, "select failed")]]
          /\ failCause' = [failCause EXCEPT ![ana[a].repoId] = AnaMsg(a, "select failed")]
          /\ ana' = [ana EXCEPT ![a] = DoneAna]
          /\ analysisQueue' = AnalysisReturn(a)
  /\ UNCHANGED <<code_files, code_entities, security_findings, disk, repoQueue,
                 ing, requests, timeouts, lastCompleted>>
  /\ UNCHANGED aux

\* EntityExtractor.saveEntities / SecurityScanner.saveFindings: plain inserts.
saveEntities(tbl, repoId, run, entities) ==
  tbl \cup {[repo |-> repoId, run |-> run, file |-> e.file, name |-> e.name,
             type |-> e.type] : e \in entities}

saveFindings(tbl, repoId, run, findings) ==
  tbl \cup {[repo |-> repoId, run |-> run, file |-> f.file, rule |-> f.rule,
             line |-> f.line, severity |-> f.severity] : f \in findings}

\* (variant without the two inner try/catch blocks: a failure of a file
\* reaches the outer catch, which fails the run)
AnalyzeFile_Abort(a, entOk, findOk) ==
  /\ ana[a].pc = "file"
  /\ ana[a].files # <<>>
  /\ LET p == Head(ana[a].files)
         entities == IF detectLanguage(p) \in {"javascript", "typescript", "python"}
                     THEN extractFromFile(p) ELSE {}
         findings == IF detectLanguage(p) = "unknown" THEN {} ELSE scanFile(p)
     IN IF entOk /\ findOk
        THEN /\ code_entities' = saveEntities(code_entities, ana[a].repoId, a, entities)
             /\ security_findings' = saveFindings(security_findings, ana[a].repoId, a, findings)
             /\ ana' = [ana EXCEPT ![a].files = Tail(@),
                                   ![a].allFindings = @ \cup findings]
             /\ UNCHANGED <<repositories, failCause, analysisQueue>>
        ELSE /\ repositories' = [repositories EXCEPT ![ana[a].repoId] =
                                  [@ EXCEPT !.analysis_status = "failed",
                                            !.last_error = AnaMsg(a, "file failed")]]
             /\ failCause' = [failCause EXCEPT ![ana[a].repoId] = AnaMsg(a, "file failed")]
             /\ ana' = [ana EXCEPT ![a] = DoneAna]
             /\ analysisQueue' = AnalysisReturn(a)
             /\ UNCHANGED <<code_entities, security_findings>>
  /\ UNCHANGED <<code_files, disk, repoQueue, ing, requests, timeouts, lastCompleted>>
  /\ UNCHANGED aux

\* One iteration of the per-file loop: extract and save entities (js, ts, py
\* only), scan and save findings; an insert that fails is caught and logged,
\* and its findings are not added to allFindings.
AnalyzeFile(a, entOk, findOk) ==
  /\ ana[a].pc = "file"
  /\ ana[a].files # <<>>
  /\ LET p == Head(ana[a].files)
         entities == IF detectLanguage(p) \in {"javascript", "typescript", "python"}
                     THEN extractFromFile(p) ELSE {}
         findings == IF detectLanguage(p) = "unknown" THEN {} ELSE scanFile(p)
     IN /\ code_entities' = IF entOk
                            THEN saveEntities(code_entities, ana[a].repoId, a, entities)
                            ELSE code_entities
        /\ security_findings' = IF findOk
                                THEN saveFindings(security_findings, ana[a].repoId, a, findings)
                                ELSE security_findings
        /\ ana' = [ana EXCEPT ![a].files = Tail(@),
                              ![a].allFindings = IF findOk THEN @ \cup findings ELSE @]
  /\ UNCHANGED <<repositories, code_files, disk, repoQueue, analysisQueue, ing,
                 requests, timeouts, failCause, lastCompleted>>
  /\ UNCHANGED aux

\* (variant that reports on every stored finding of the repository)
ReportInput_AllStored(a) ==
  {f \in security_findings : f.repo = ana[a].repoId}

\* The findings the report of a run is generated from: the local allFindings.
ReportInput(a) == ana[a].allFindings

\* After the loop: report, risk score, update {completed, risk_score}; return.
AnalysisFinish(a) ==
  /\ ana[a].pc = "file"
  /\ ana[a].files = <<>>
  /\ repositories' =
       [repositories EXCEPT ![ana[a].repoId] =
          [@ EXCEPT !.analysis_status = "completed",
                    !.risk_score = <<calculateRiskScore(generateReport(ReportInput(a)))>>]]
  /\ lastCompleted' = [lastCompleted EXCEPT ![ana[a].repoId] = a]
  /\ ana' = [ana EXCEPT ![a] = DoneAna]
  /\ analysisQueue' = AnalysisReturn(a)
  /\ UNCHANGED <<code_files, code_entities, security_findings, disk, repoQueue,
                 ing, requests, timeouts, failCause>>
  /\ UNCHANGED aux

\* Bull: the analysis attempt's timeout fires; the handler runs on.
AnalysisTimeout(a) ==
  /\ Running(ana, a)
  /\ ~ana[a].timedOut
  /\ timeouts < MaxTimeouts
  /\ timeouts' = timeouts + 1
  /\ ana' = [ana EXCEPT ![a].timedOut = TRUE]
  /\ analysisQueue' = AttemptFailed(analysisQueue, ana[a].job, AnalysisAttempts,
                                    <<"queue", ana[a].job, "timed out">>)
  /\ UNCHANGED <<repositories, code_files, code_entities, security_findings, disk,
                 repoQueue, ing, requests, failCause, lastCompleted>>
  /\ UNCHANGED aux

\* ---------------------------------------------------------------- Spec
Next ==
  \/ \E r \in Repos, addOk \in BOOLEAN : PostRepos(r, addOk)
  \/ \E r \in Repos, addOk \in BOOLEAN : PostAnalyze(r, addOk)
  \/ \E j \in JobIds : IngestBegin(j)
  \/ \E h \in IngRuns : CloneRm(h)
  \/ \E h \in IngRuns, ok \in BOOLEAN : CloneGit(h, ok)
  \/ \E h \in IngRuns : SetParsing(h)
  \/ \E h \in IngRuns, ok \in BOOLEAN : Discover(h, ok)
  \/ \E h \in IngRuns : StoreFile(h)
  \/ \E h \in IngRuns : SetCompleted(h)
  \/ \E h \in IngRuns : Cleanup(h)
  \/ \E h \in IngRuns, ok \in BOOLEAN : EnqueueAnalysis(h, ok)
  \/ \E h \in IngRuns : IngestTimeout(h)
  \/ \E j \in DOMAIN analysisQueue : AnalysisBegin(j)
  \/ \E a \in AnaRuns, ok \in BOOLEAN : AnalysisSelect(a, ok)
  \/ \E a \in AnaRuns, entOk, findOk \in BOOLEAN : AnalyzeFile(a, entOk, findOk)
  \/ \E a \in AnaRuns : AnalysisFinish(a)
  \/ \E a \in AnaRuns : AnalysisTimeout(a)

Spec == Init /\ [][Next]_vars

\* The same program under fair scheduling of the two worker loops: Bull
\* starts a waiting job when its queue's processor is free, and a handler
\* that can take its next step takes it.  Requests and job timeouts are
\* events of the environment and need never happen.
IngestStep(h) ==
  \/ CloneRm(h)
  \/ \E ok \in BOOLEAN : CloneGit(h, ok)
  \/ SetParsing(h)
  \/ \E ok \in BOOLEAN : Discover(h, ok)
  \/ StoreFile(h)
  \/ SetCompleted(h)
  \/ Cleanup(h)
  \/ \E ok \in BOOLEAN : EnqueueAnalysis(h, ok)

AnalysisStep(a) ==
  \/ \E ok \in BOOLEAN : AnalysisSelect(a, ok)
  \/ \E entOk, findOk \in BOOLEAN : AnalyzeFile(a, entOk, findOk)
  \/ AnalysisFinish(a)

Fairness ==
  /\ \A j \in JobIds : WF_vars(IngestBegin(j))
  /\ \A h \in IngRuns : WF_vars(IngestStep(h))
  /\ \A j \in IngRuns : WF_vars(AnalysisBegin(j))
  /\ \A a \in AnaRuns : WF_vars(AnalysisStep(a))

FairSpec == Init /\ [][Next]_vars /\ Fairness

\* ------------------------------------------------- the risk formula alone
InitRisk ==
  /\ InitPipeline
  /\ IdleExt
  /\ IdleStore
  /\ IdleSched
  /\ IdleBus
  /\ IdleGit
  /\ IdleScan
  /\ summary \in [critical : 0..MaxCount, high : 0..MaxCount,
                  medium : 0..MaxCount, low : 0..MaxCount]
  /\ score = <<>>

\* riskScore = this.calculateRiskScore(report.summary)
ComputeRisk ==
  /\ score = <<>>
  /\ score' = <<calculateRiskScore(summary)>>
  /\ UNCHANGED <<summary, pvars, extVars, storeVars, repo_metrics, schedVars, busVars, gitVars, scanVars>>

NextRisk == ComputeRisk

SpecRisk == InitRisk /\ [][NextRisk]_vars

\* ---------------------------------------------- one file, stored and scanned
\* A file's text is kept as its length in UTF-16 code units (what
\* content.length counts) and the places where a scanner rule matches: a
\* match occupies the code units from+1 .. to of its line.
ContentCap == 50000      \* storeFile: content.substring(0, 50000)
SkipLength == 100000     \* ingestRepository: content.length > 100000
MAX_FILE_SIZE_BYTES == 100 * 1024

Hits == {[from |-> 10, to |-> 15], [from |-> 49990, to |-> 49995],
         [from |-> 49998, to |-> 50003], [from |-> 60000, to |-> 60005]}
FileChars == {0, 40000, 50000, 50001, 70000, 100000, 100001, 102400, 102401}

\* fs.readFile(path, 'utf-8') of a file of stats.size bytes: a code unit is
\* decoded from one to three bytes.
FilesOfLength(n) ==
  {[chars |-> n, bytes |-> b, content |-> [length |-> n, hits |-> hs]] :
     b \in {n, 2 * n, 3 * n}, hs \in SUBSET {h \in Hits : h.to <= n}}
Files == UNION {FilesOfLength(n) : n \in FileChars}

\* String.prototype.substring(0, n): a match cut by the end is no match.
substring(c, n) ==
  [length |-> Min(c.length, n), hits |-> {h \in c.hits : h.to <= n}]

\* SecurityScanner.findMatches on such a text: the matches it holds.
matchedLines(c) == c.hits

InitStore ==
  /\ InitPipeline
  /\ IdleExt
  /\ IdleRisk
  /\ IdleSched
  /\ IdleBus
  /\ IdleGit
  /\ IdleScan
  /\ file \in Files
  /\ stage = "discovered"
  /\ stored = <<>>
  /\ found = {}

\* storeFile: the row that is upserted
storeFile(f) ==
  [content |-> substring(f.content, ContentCap), size_bytes |-> f.bytes]

\* One iteration of the ingestion loop: readFile, the skip test, storeFile.
IngestFile(readOk, upsertOk) ==
  /\ stage = "discovered"
  /\ IF ~readOk \/ file.chars = 0 \/ file.chars > SkipLength
     THEN stage' = "skipped" /\ stored' = stored
     ELSE /\ stage' = "stored"
          /\ stored' = IF upsertOk THEN <<storeFile(file)>> ELSE <<>>
  /\ UNCHANGED <<file, found, pvars, extVars, riskVars, repo_metrics, schedVars, busVars, gitVars, scanVars>>

\* analyzeRepo, the security scan of one selected row: scanFile(file.content)
ScanStored ==
  /\ stage = "stored"
  /\ stored # <<>>
  /\ stage' = "scanned"
  /\ found' = matchedLines(stored[1].content)
  /\ UNCHANGED <<file, stored, pvars, extVars, riskVars, repo_metrics, schedVars, busVars, gitVars, scanVars>>

NextStore ==
  \/ \E readOk, upsertOk \in BOOLEAN : IngestFile(readOk, upsertOk)
  \/ ScanStored

SpecStore == InitStore /\ [][NextStore]_vars

\* ------------------------------------------- the two processors (worker.js)
\* repoQueue.process(handler) and analysisQueue.process(handler) take no
\* concurrency argument: Bull keeps at most one job of a queue active.  A
\* job's timeout fails the attempt and frees the processor; the handler of
\* that attempt is not stopped.
MAX_CONCURRENT_CLONES == 3
MAX_CONCURRENT_ANALYSES == 5

SchedRepos == {1, 2}
Attempts(q) == IF q = "repo-ingestion" THEN IngestAttempts ELSE AnalysisAttempts

FreeJobs == {j \in SchedJobs : jobs[j].state = "none"}

\* queue.add(data, opts)
SchedAdd(js, q, r) ==
  LET j == CHOOSE f \in FreeJobs : \A k \in FreeJobs : f <= k
  IN [js EXCEPT ![j] = [queue |-> q, repoId |-> r, state |-> "waiting",
                        attemptsMade |-> 0]]

\* Bull: a failed attempt is retried while attempts remain
SchedFailed(js, j) ==
  [js EXCEPT ![j].state = IF js[j].attemptsMade < Attempts(js[j].queue)
                          THEN "waiting" ELSE "failed"]

InitSched ==
  /\ InitPipeline
  /\ IdleExt
  /\ IdleRisk
  /\ IdleStore
  /\ IdleBus
  /\ IdleGit
  /\ IdleScan
  /\ jobs = [j \in SchedJobs |-> NoSchedJob]
  /\ executing = {}

\* POST /repos, POST /repos/:id/analyze: queueRepoIngestion(repo.id)
SchedPost(r) ==
  /\ FreeJobs # {}
  /\ jobs' = SchedAdd(jobs, "repo-ingestion", r)
  /\ UNCHANGED <<executing, pvars, extVars, riskVars, storeVars, repo_metrics, busVars, gitVars, scanVars>>

\* Bull takes a waiting job when its queue has no active job and calls the
\* handler.
SchedBegin(j) ==
  /\ jobs[j].state = "waiting"
  /\ \A k \in SchedJobs : ~(jobs[k].queue = jobs[j].queue /\ jobs[k].state = "active")
  /\ jobs' = [jobs EXCEPT ![j].state = "active", ![j].attemptsMade = @ + 1]
  /\ executing' = executing \cup {[job |-> j, attempt |-> jobs[j].attemptsMade + 1]}
  /\ UNCHANGED <<pvars, extVars, riskVars, storeVars, repo_metrics, busVars, gitVars, scanVars>>

\* Bull: the active attempt's timeout fires.
SchedTimeout(j) ==
  /\ jobs[j].state = "active"
  /\ jobs' = SchedFailed(jobs, j)
  /\ UNCHANGED <<executing, pvars, extVars, riskVars, storeVars, repo_metrics, busVars, gitVars, scanVars>>

\* A handler returns (ok) or throws.  The ingestion handler queues the
\* analysis before it returns, and a throw of queueAnalysis is rethrown; the
\* analysis handler always returns.  Bull ignores the outcome of an attempt
\* that has timed out.
SchedReturn(e, ok, addOk) ==
  /\ e \in executing
  /\ executing' = executing \ {e}
  /\ LET q == jobs[e.job].queue
         live == jobs[e.job].state = "active" /\ jobs[e.job].attemptsMade = e.attempt
         done == IF ~live THEN jobs
                 ELSE IF ok /\ (q = "code-analysis" \/ addOk)
                      THEN [jobs EXCEPT ![e.job].state = "completed"]
                      ELSE SchedFailed(jobs, e.job)
     IN /\ q = "code-analysis" => ok /\ ~addOk
        /\ addOk => ok /\ FreeJobs # {}
        /\ jobs' = IF q = "repo-ingestion" /\ addOk
                   THEN SchedAdd(done, "code-analysis", jobs[e.job].repoId)
                   ELSE done
  /\ UNCHANGED <<pvars, extVars, riskVars, storeVars, repo_metrics, busVars, gitVars, scanVars>>

NextSched ==
  \/ \E r \in SchedRepos : SchedPost(r)
  \/ \E j \in SchedJobs : SchedBegin(j)
  \/ \E j \in SchedJobs : SchedTimeout(j)
  \/ \E e \in executing, ok, addOk \in BOOLEAN : SchedReturn(e, ok, addOk)

SpecSched == InitSched /\ [][NextSched]_vars

\* ------------------------------------------------- GitParser (git-parser.js)
\* Numbers that are fractions in the code are kept exact: the bus factor is
\* the fraction num / den, and a reported score is a count of tenths
\* (score 19 is the number 1.9).
Authors == {"alice", "bob"}
Paths == {"a.js", "b.go", "README.md"}

\* path.extname(file)
extname(p) ==
  CASE p = "a.js" -> ".js"
    [] p = "b.go" -> ".go"
    [] p = "README.md" -> ".md"
    [] OTHER -> ""

codeExtensions ==
  {".js", ".ts", ".jsx", ".tsx", ".py", ".rb", ".go", ".rs", ".java", ".kt",
   ".scala", ".c", ".cpp", ".h", ".hpp", ".php", ".swift", ".m", ".mm"}

isCodeFile(p) == extname(p) \in codeExtensions

\* A line of the log, split at '|': a header COMMIT|%H|%an|%ae|%at, a path,
\* or an empty line.
HeaderOf(a) == <<"COMMIT", "h", a, a, "1">>
LogLines == {HeaderOf(a) : a \in Authors} \cup {<<p>> : p \in Paths} \cup {<<"">>}

\* parseLog: the loop over the lines, with commits and currentCommit
RECURSIVE parseLines(_, _, _)
parseLines(lines, commits, currentCommit) ==
  IF lines = <<>> THEN commits \o currentCommit
  ELSE LET line == Head(lines)
       IN IF line[1] = "COMMIT"
          THEN parseLines(Tail(lines), commits \o currentCommit,
                          <<[hash |-> line[2], author |-> line[3],
                             email |-> line[4], files |-> <<>>]>>)
          ELSE IF line[1] # "" /\ currentCommit # <<>>
               THEN parseLines(Tail(lines), commits,
                               <<[currentCommit[1] EXCEPT !.files = Append(@, line[1])]>>)
               ELSE parseLines(Tail(lines), commits, currentCommit)

parseLog(lines) == parseLines(lines, <<>>, <<>>)

\* fileAuthors[file][author]: one per listing of the file in a commit of the author
fileAuthors(commits, f, a) ==
  Cardinality({ij \in (1..Len(commits)) \X (1..MaxLogLines) :
                 /\ commits[ij[1]].author = a
                 /\ ij[2] <= Len(commits[ij[1]].files)
                 /\ commits[ij[1]].files[ij[2]] = f})

\* The place of an author among the keys of fileAuthors[file]: the first
\* commit of the author that lists the file.
FirstTouch(commits, f, a) ==
  CHOOSE i \in 1..Len(commits) :
    /\ commits[i].author = a /\ f \in Range(commits[i].files)
    /\ \A k \in 1..(i - 1) : ~(commits[k].author = a /\ f \in Range(commits[k].files))

\* Math.round((count / totalCommits) * 100)
percentage(count, totalCommits) == (200 * count + totalCommits) \div (2 * totalCommits)

\* calculateFileOwnership: the sort by commits is stable, so among authors
\* with the same count the one met first in the log is the primary author.
calculateFileOwnership(commits) ==
  LET touched == {f \in UNION {Range(commits[i].files) : i \in 1..Len(commits)} :
                    isCodeFile(f)}
      authorsOf(f) == {commits[i].author : i \in {k \in 1..Len(commits) :
                                                    f \in Range(commits[k].files)}}
      total(f) == Cardinality({ij \in (1..Len(commits)) \X (1..MaxLogLines) :
                                 /\ ij[2] <= Len(commits[ij[1]].files)
                                 /\ commits[ij[1]].files[ij[2]] = f})
      primary(f) == CHOOSE a \in authorsOf(f) : \A b \in authorsOf(f) :
                      \/ fileAuthors(commits, f, a) > fileAuthors(commits, f, b)
                      \/ /\ fileAuthors(commits, f, a) = fileAuthors(commits, f, b)
                         /\ FirstTouch(commits, f, a) <= FirstTouch(commits, f, b)
  IN [f \in touched |->
        [primary_author |-> primary(f),
         primary_percentage |-> percentage(fileAuthors(commits, f, primary(f)), total(f)),
         total_commits |-> total(f)]]

\* calculateAuthorStats: commits per author
calculateAuthorStats(commits) ==
  [a \in {commits[i].author : i \in 1..Len(commits)} |->
     Cardinality({i \in 1..Len(commits) : commits[i].author = a})]

\* authorFileCount: files per primary author
authorFileCount(fo) ==
  [a \in {fo[f].primary_author : f \in DOMAIN fo} |->
     Cardinality({f \in DOMAIN fo : fo[f].primary_author = a})]

\* (variant that sorts in ascending order)
RECURSIVE sortedAuthors_Ascending(_, _)
sortedAuthors_Ascending(cnt, S) ==
  IF S = {} THEN <<>>
  ELSE LET a == CHOOSE x \in S : \A y \in S : cnt[x] <= cnt[y]
       IN <<cnt[a]>> \o sortedAuthors_Ascending(cnt, S \ {a})

\* Object.entries(authorFileCount).sort((a, b) => b[1] - a[1]): the counts
RECURSIVE sortedAuthors(_, _)
sortedAuthors(cnt, S) ==
  IF S = {} THEN <<>>
  ELSE LET a == CHOOSE x \in S : \A y \in S : cnt[x] >= cnt[y]
       IN <<cnt[a]>> \o sortedAuthors(cnt, S \ {a})

\* (variant that adds the author's files to the bus factor)
RECURSIVE cover_CountsFiles(_, _, _, _)
cover_CountsFiles(counts, filesCovered, n, totalFiles) ==
  IF counts = <<>> THEN [filesCovered |-> filesCovered, busFactor |-> n]
  ELSE IF 2 * (filesCovered + Head(counts)) >= totalFiles
       THEN [filesCovered |-> filesCovered + Head(counts), busFactor |-> n + Head(counts)]
       ELSE cover_CountsFiles(Tail(counts), filesCovered + Head(counts),
                              n + Head(counts), totalFiles)

\* (variant that stops after the first author)
cover_FirstOnly(counts, filesCovered, n, totalFiles) ==
  IF counts = <<>> THEN [filesCovered |-> filesCovered, busFactor |-> n]
  ELSE [filesCovered |-> filesCovered + Head(counts), busFactor |-> n + 1]

\* The loop: filesCovered += count; busFactor++; stop at half of the files.
RECURSIVE cover(_, _, _, _)
cover(counts, filesCovered, n, totalFiles) ==
  IF counts = <<>> THEN [filesCovered |-> filesCovered, busFactor |-> n]
  ELSE IF 2 * (filesCovered + Head(counts)) >= totalFiles
       THEN [filesCovered |-> filesCovered + Head(counts), busFactor |-> n + 1]
       ELSE cover(Tail(counts), filesCovered + Head(counts), n + 1, totalFiles)

\* The loop's result for an ownership map
baseBusFactor(fo) ==
  cover(sortedAuthors(authorFileCount(fo), DOMAIN authorFileCount(fo)), 0, 0,
        Cardinality(DOMAIN fo))

\* (variant with strict comparisons)
riskLevel_Strict(num, den) ==
  IF 2 * num < 3 * den THEN "CRITICAL"
  ELSE IF 2 * num < 5 * den THEN "HIGH"
  ELSE IF num < 4 * den THEN "MEDIUM"
  ELSE "LOW"

\* busFactor <= 1.5, <= 2.5, <= 4 for busFactor = num / den
riskLevel(num, den) ==
  IF 2 * num <= 3 * den THEN "CRITICAL"
  ELSE IF 2 * num <= 5 * den THEN "HIGH"
  ELSE IF num <= 4 * den THEN "MEDIUM"
  ELSE "LOW"

\* Math.round(x * 10) / 10 for x = num / den, in tenths
roundTenths(num, den) == (20 * num + den) \div (2 * den)

\* calculateBusFactor: coverage < 0.6 is 10 * filesCovered < 6 * totalFiles,
\* and the partial credit (0.5 - (coverage - 0.5)) * 2 is
\* 2 * (totalFiles - filesCovered) / totalFiles.
calculateBusFactor(fo, stats) ==
  LET totalFiles == Cardinality(DOMAIN fo)
      singleOwnerFiles == {f \in DOMAIN fo : fo[f].primary_percentage >= 80}
      loop == baseBusFactor(fo)
      num == IF 10 * loop.filesCovered < 6 * totalFiles
             THEN loop.busFactor * totalFiles + 2 * (totalFiles - loop.filesCovered)
             ELSE loop.busFactor * totalFiles
  IN IF totalFiles = 0
     THEN [score |-> 0, riskLevel |-> "UNKNOWN"]
     ELSE [score |-> roundTenths(num, totalFiles),
           riskLevel |-> riskLevel(num, totalFiles),
           single_owner_percentage |->
             percentage(Cardinality(singleOwnerFiles), totalFiles),
           total_authors |-> Cardinality(DOMAIN stats)]

\* ------------------------------------------------ calculateBusFactor alone
BusAuthors == 1..MaxBusAuthors

\* An ownership map in which author a is the primary author of owned[a] files.
OwnershipOf(owned) ==
  [f \in {af \in BusAuthors \X (1..MaxOwned) : af[2] <= owned[af[1]]} |->
     [primary_author |-> f[1], primary_percentage |-> 100, total_commits |-> 1]]

InitBus ==
  /\ InitPipeline
  /\ IdleExt
  /\ IdleRisk
  /\ IdleStore
  /\ IdleSched
  /\ IdleGit
  /\ IdleScan
  /\ \E owned \in [BusAuthors -> 0..MaxOwned] :
       /\ fileOwnership = OwnershipOf(owned)
       /\ authorStats = [a \in {b \in BusAuthors : owned[b] > 0} |-> owned[a]]
  /\ busFactor = <<>>

\* const busFactor = this.calculateBusFactor(fileOwnership, authorStats)
ComputeBusFactor ==
  /\ busFactor = <<>>
  /\ busFactor' = <<calculateBusFactor(fileOwnership, authorStats)>>
  /\ UNCHANGED <<fileOwnership, authorStats, pvars, extVars, riskVars, storeVars,
                 repo_metrics, schedVars, gitVars, scanVars>>

NextBus == ComputeBusFactor

SpecBus == InitBus /\ [][NextBus]_vars

\* ------------------------------------------------ GitParser.analyzeRepo alone
Steps == {"getGitLog", "parseLog", "calculateFileOwnership", "calculateBusFactor"}

\* What git log prints starts with a header line.
Logs == {l \in UNION {[1..n -> LogLines] : n \in 0..MaxLogLines} :
           l # <<>> => l[1][1] = "COMMIT"}

InitGit ==
  /\ InitPipeline
  /\ IdleExt
  /\ IdleRisk
  /\ IdleStore
  /\ IdleSched
  /\ IdleBus
  /\ IdleScan
  /\ logData \in Logs
  /\ fault \in Steps \cup {"none"}
  /\ gitResult = <<>>

\* (variant whose catch rethrows)
analyzeRepoCatch_Rethrow(message) ==
  [ended |-> "throw", value |-> message]

\* catch (error): the degraded result
analyzeRepoCatch(message) ==
  [ended |-> "return",
   value |-> [bus_factor |-> 0, risk_level |-> "UNKNOWN", error |-> message]]

\* GitParser.analyzeRepo(repoPath): the try block, or the catch when a step
\* throws.
GitAnalyzeRepo ==
  /\ gitResult = <<>>
  /\ gitResult' =
       IF fault # "none" THEN <<analyzeRepoCatch(fault \o " failed")>>
       ELSE LET commits == parseLog(logData)
                ownership == calculateFileOwnership(commits)
                stats == calculateAuthorStats(commits)
                bf == calculateBusFactor(ownership, stats)
            IN <<[ended |-> "return",
                  value |-> [bus_factor |-> bf.score,
                             risk_level |-> bf.riskLevel,
                             total_commits |-> Len(commits),
                             unique_authors |-> Cardinality(DOMAIN stats),
                             file_ownership |-> ownership]]>>
  /\ UNCHANGED <<logData, fault, pvars, extVars, riskVars, storeVars, repo_metrics,
                 schedVars, busVars, scanVars>>

NextGit == GitAnalyzeRepo

SpecGit == InitGit /\ [][NextGit]_vars

\* -------------------------------------------- SecurityScanner.findMatches
\* A line is a sequence of tokens; no token is part of another one or
\* arises from two neighbours.  A confidence is a count of tenths.
Tokens == {" ", "//", "*", "test", "spec", "eval("}
Lines == UNION {[1..n -> Tokens] : n \in 0..MaxLineLen}
Contents(n) == [1..n -> Lines]

\* String.prototype.trim
RECURSIVE trimStart(_)
trimStart(line) ==
  IF line # <<>> /\ Head(line) = " " THEN trimStart(Tail(line)) ELSE line

RECURSIVE trimEnd(_)
trimEnd(line) ==
  IF line # <<>> /\ line[Len(line)] = " "
  THEN trimEnd(SubSeq(line, 1, Len(line) - 1)) ELSE line

trim(line) == trimEnd(trimStart(line))

includes(line, token) == token \in Range(line)
startsWith(line, token) == line # <<>> /\ Head(line) = token
Max(a, b) == IF a > b THEN a ELSE b

\* (variant that tests the untrimmed line)
confidence_NoTrim(line) ==
  LET c0 == 8
      c1 == IF includes(line, "test") \/ includes(line, "spec") THEN c0 - 2 ELSE c0
      c2 == IF startsWith(line, "//") THEN c1 - 3 ELSE c1
      c3 == IF startsWith(line, "*") THEN c2 - 3 ELSE c2
  IN Max(3, c3)

\* let confidence = 0.8; ... Math.max(0.3, confidence)
confidence(line) ==
  LET c0 == 8
      c1 == IF includes(line, "test") \/ includes(line, "spec") THEN c0 - 2 ELSE c0
      c2 == IF startsWith(trim(line), "//") THEN c1 - 3 ELSE c1
      c3 == IF startsWith(trim(line), "*") THEN c2 - 3 ELSE c2
  IN Max(3, c3)

\* findMatches(content, pattern), for a pattern that matches the lines
\* holding one given token
findMatches(lines, pattern) ==
  LET hit == {i \in 1..Len(lines) : includes(lines[i], pattern)}
      nth(i) == CHOOSE k \in hit : Cardinality({j \in hit : j <= k}) = i
  IN [i \in 1..Cardinality(hit) |->
        [line |-> nth(i), text |-> trim(lines[nth(i)]),
         confidence |-> confidence(lines[nth(i)])]]

InitScan ==
  /\ InitPipeline
  /\ IdleExt
  /\ IdleRisk
  /\ IdleStore
  /\ IdleSched
  /\ IdleBus
  /\ IdleGit
  /\ \E n \in 1..MaxScanLines : content \in Contents(n)
  /\ matches = <<>>
  /\ scanned = <<>>

\* scanFile: this.findMatches(content, rule.pattern) for the rule EVAL_USAGE
ScanContent ==
  /\ matches = <<>>
  /\ matches' = <<findMatches(content, "eval(")>>
  /\ UNCHANGED <<content, scanned, pvars, extVars, riskVars, storeVars, repo_metrics,
                 schedVars, busVars, gitVars>>

NextScan == ScanContent

SpecScan == InitScan /\ [][NextScan]_vars


\* ------------------------------------------------------------------
\* SecurityScanner.scanFile: every rule applied to every line of a text.
\* Two of the ten rules of loadRules, in their order; a rule's pattern is
\* the token it looks for.

rules ==
  << [id |-> "EVAL_USAGE", pattern |-> "eval(", severity |-> "high"],
     [id |-> "DEBUGGER_STATEMENT", pattern |-> "debugger;", severity |-> "low"] >>

RuleTokens == {"x", "eval(", "debugger;"}
RuleLines == UNION {[1..n -> RuleTokens] : n \in 0..MaxRuleLineLen}

\* for (const match of matches) findings.push({...})
ruleFindings(rule, text) ==
  LET ms == findMatches(text, rule.pattern)
  IN [n \in 1..Len(ms) |->
        [rule_id |-> rule.id, severity |-> rule.severity,
         line_number |-> ms[n].line, evidence |-> ms[n].text,
         confidence |-> ms[n].confidence]]

\* (variant that returns after the first rule that matched anything)
RECURSIVE scanFileContent_FirstRule(_, _)
scanFileContent_FirstRule(text, k) ==
  IF k > Len(rules) THEN <<>>
  ELSE IF ruleFindings(rules[k], text) # <<>> THEN ruleFindings(rules[k], text)
  ELSE scanFileContent_FirstRule(text, k + 1)

\* for (const rule of this.rules) ...: the rules from the k-th on
RECURSIVE scanFileContent(_, _)
scanFileContent(text, k) ==
  IF k > Len(rules) THEN <<>>
  ELSE ruleFindings(rules[k], text) \o scanFileContent(text, k + 1)

InitRules ==
  /\ InitPipeline
  /\ IdleExt
  /\ IdleRisk
  /\ IdleStore
  /\ IdleSched
  /\ IdleBus
  /\ IdleGit
  /\ \E n \in 1..MaxRuleLines : content \in [1..n -> RuleLines]
  /\ matches = <<>>
  /\ scanned = <<>>

\* scanFile(repoId, fileId, filePath, content)
ScanFileRules ==
  /\ scanned = <<>>
  /\ scanned' = <<scanFileContent(content, 1)>>
  /\ UNCHANGED <<content, matches, pvars, extVars, riskVars, storeVars, repo_metrics,
                 schedVars, busVars, gitVars>>

NextRules == ScanFileRules

SpecRules == InitRules /\ [][NextRules]_vars


\* ------------------------------------------------------------------
\* ingestion/clone.js, getCodeFiles: which paths the globs return.
\* A path is the directories above the file and the file's name, the name
\* split at its dots: src/app.test.ts is
\* [dirs |-> <<"src">>, name |-> <<"app", "test", "ts">>].

\* the patterns '**/*.js' ... '**/*.h', each by its extension
patterns == <<"js", "jsx", "ts", "tsx", "py", "go", "rs", "java", "c", "cpp", "h">>

\* ignore: '**/node_modules/**', '**/vendor/**', '**/.git/**', '**/dist/**',
\* '**/build/**'
ignoredDirs == {"node_modules", "vendor", ".git", "dist", "build"}

\* ignore: '**/*.min.js', '**/*.test.js', '**/*.spec.js'
ignoredSuffixes == {<<"min", "js">>, <<"test", "js">>, <<"spec", "js">>}

TreeDirs == ignoredDirs \cup {"src"}
Stems == {"app"}
Middles == {"min", "test", "spec"}
Extensions == Range(patterns) \cup {"css"}
FileNames ==
  {<<st, e>> : st \in Stems, e \in Extensions}
    \cup {<<st, m, e>> : st \in Stems, m \in Middles, e \in Extensions}
TreePaths(n) == [dirs : [1..n -> TreeDirs], name : FileNames]

\* glob without the option dot: neither ** nor * matches a name that starts
\* with a dot
hidden(segment) == segment = ".git"

\* '**/*.<ext>' matches the path
matchesPattern(ext, path) ==
  /\ path.name[Len(path.name)] = ext
  /\ \A i \in 1..Len(path.dirs) : ~hidden(path.dirs[i])

\* one of the ignore patterns matches the path
ignored(path) ==
  \/ \E i \in 1..Len(path.dirs) : path.dirs[i] \in ignoredDirs
  \/ /\ Len(path.name) >= 3
     /\ SubSeq(path.name, Len(path.name) - 1, Len(path.name)) \in ignoredSuffixes

\* glob.glob(pattern, {cwd, ignore, absolute}) returns the path
glob(ext, path) == matchesPattern(ext, path) /\ ~ignored(path)

InitGlob ==
  /\ InitPipeline
  /\ IdleBase
  /\ \E n \in 0..MaxDepth : candidate \in TreePaths(n)
  /\ selected = <<>>
  /\ globRestIdle

\* for (const pattern of patterns) files.push(...matches)
GlobPath ==
  /\ selected = <<>>
  /\ selected' = <<\E k \in 1..Len(patterns) : glob(patterns[k], candidate)>>
  /\ UNCHANGED <<candidate, pvars, baseAux, globRest>>

NextGlob == GlobPath

SpecGlob == InitGlob /\ [][NextGlob]_vars


\* ------------------------------------------------------------------
\* ingestion/clone.js, getCodeFiles: the list it returns for a whole tree.
\* The tree holds numbered files of three kinds: src/<n>.js, src/<n>.py and
\* vendor/<n>.py; field n of a path is the number in its name.

maxFiles == 1000
MAX_FILES_PER_REPO == 1000

kinds ==
  << [dirs |-> <<"src">>, name |-> <<"f", "js">>],
     [dirs |-> <<"src">>, name |-> <<"f", "py">>],
     [dirs |-> <<"vendor">>, name |-> <<"f", "py">>] >>

FileCounts == {0, 1, maxFiles - 1, maxFiles, MaxGlobbed}
Trees == [count : [1..Len(kinds) -> FileCounts], reversed : BOOLEAN]

\* const matches = await glob.glob(pattern, ...): the files of one kind, in
\* the order the directory walk meets them
kindMatches(ext, t, k) ==
  IF glob(ext, kinds[k])
  THEN [i \in 1..t.count[k] |->
          [dirs |-> kinds[k].dirs, name |-> kinds[k].name,
           n |-> IF t.reversed THEN t.count[k] + 1 - i ELSE i]]
  ELSE <<>>

RECURSIVE patternMatches(_, _, _)
patternMatches(ext, t, k) ==
  IF k > Len(kinds) THEN <<>>
  ELSE kindMatches(ext, t, k) \o patternMatches(ext, t, k + 1)

\* for (const pattern of patterns) files.push(...matches): from pattern p on
RECURSIVE discovered(_, _)
discovered(t, p) ==
  IF p > Len(patterns) THEN <<>>
  ELSE patternMatches(patterns[p], t, 1) \o discovered(t, p + 1)

\* (variant that keeps the last maxFiles)
limitFiles_Last(fs) ==
  IF Len(fs) > maxFiles THEN SubSeq(fs, Len(fs) - maxFiles + 1, Len(fs)) ELSE fs

\* if (files.length > maxFiles) return files.slice(0, maxFiles); return files
limitFiles(fs) ==
  IF Len(fs) > maxFiles THEN SubSeq(fs, 1, maxFiles) ELSE fs

InitFiles ==
  /\ InitPipeline
  /\ IdleBase
  /\ filesRestIdle
  /\ tree \in Trees
  /\ files = <<>>

\* getCodeFiles(repoPath)
GetCodeFiles ==
  /\ files = <<>>
  /\ files' = <<limitFiles(discovered(tree, 1))>>
  /\ UNCHANGED <<tree, pvars, baseAux, filesRest>>

NextFiles == GetCodeFiles

SpecFiles == InitFiles /\ [][NextFiles]_vars


\* ------------------------------------------------------------------
\* analysis/entity-extractor.js and the AST parser: the entities of one
\* file.  A syntax tree is its nodes, numbered so that a parent comes before
\* its children; a node is [type, parent, span], span the pair
\* <<startPosition.row, endPosition.row>>.  The empty tree stands for
\* parse() returning null.

NodeTypes ==
  {"function_declaration", "class_declaration", "if_statement",
   "binary_expression", "||"}

\* the rows of a two-line file
Spans == {<<0, 0>>, <<0, 1>>, <<1, 1>>}

Parents(n) ==
  {p \in [1..n -> 0..(n - 1)] : \A i \in 1..n : IF i = 1 THEN p[i] = 0 ELSE p[i] \in 1..(i - 1)}

\* tree-sitter: a child lies inside its parent
Nested(p, sp) ==
  \A i \in DOMAIN p :
     p[i] # 0 => sp[p[i]][1] <= sp[i][1] /\ sp[i][2] <= sp[p[i]][2]

Asts(n) ==
  {[i \in 1..n |-> [type |-> ty[i], parent |-> p[i], span |-> sp[i]]] :
     ty \in [1..n -> NodeTypes], p \in Parents(n),
     sp \in [1..n -> Spans]}

WellFormed(t) ==
  Nested([i \in DOMAIN t |-> t[i].parent], [i \in DOMAIN t |-> t[i].span])

\* node.children, in order
children(t, i) == {j \in DOMAIN t : t[j].parent = i}

\* the nodes traverse(node) visits
RECURSIVE subtree(_, _)
subtree(t, i) == {i} \cup UNION {subtree(t, j) : j \in children(t, i)}

\* the tests of calculateComplexity's traverse on one node
counts(t, n) ==
  \/ t[n].type \in {"if_statement", "conditional_expression"}
  \/ t[n].type \in {"for_statement", "while_statement", "do_statement"}
  \/ t[n].type = "switch_statement"
  \/ t[n].type = "catch_clause"
  \/ /\ t[n].type = "binary_expression"
     /\ \E c \in children(t, n) : t[c].type \in {"||", "&&"}

\* calculateComplexity(node)
calculateComplexity(t, i) ==
  1 + Cardinality({n \in subtree(t, i) : counts(t, n)})

\* (variant that reports the end row as it is)
nodeFunctions_EndRow(t, i) ==
  (IF t[i].type \in {"function_declaration", "function", "arrow_function",
                     "method_definition"}
   THEN << [type |-> "function", start_line |-> t[i].span[1] + 1,
            end_line |-> t[i].span[2],
            complexity |-> calculateComplexity(t, i)] >>
   ELSE <<>>)
  \o
  (IF t[i].type \in {"class_declaration", "class"}
   THEN << [type |-> "class", start_line |-> t[i].span[1] + 1,
            end_line |-> t[i].span[2]] >>
   ELSE <<>>)

\* extractFunctions, what traverse pushes for one node
nodeFunctions(t, i) ==
  (IF t[i].type \in {"function_declaration", "function", "arrow_function",
                     "method_definition"}
   THEN << [type |-> "function", start_line |-> t[i].span[1] + 1,
            end_line |-> t[i].span[2] + 1,
            complexity |-> calculateComplexity(t, i)] >>
   ELSE <<>>)
  \o
  (IF t[i].type \in {"class_declaration", "class"}
   THEN << [type |-> "class", start_line |-> t[i].span[1] + 1,
            end_line |-> t[i].span[2] + 1] >>
   ELSE <<>>)

\* for (const child of node.children) traverse(child): the children from
\* the k-th smallest on
RECURSIVE traverseFrom(_, _, _)
traverse(t, i) == nodeFunctions(t, i) \o traverseFrom(t, i, 0)
traverseFrom(t, i, after) ==
  LET later == {j \in children(t, i) : j > after}
  IN IF later = {} THEN <<>>
     ELSE LET j == CHOOSE c \in later : \A d \in later : c <= d
          IN traverse(t, j) \o traverseFrom(t, i, j)

\* extractFunctions(tree, code)
extractFunctions(t) == traverse(t, 1)

\* func.complexity || 1
complexityOr1(func) ==
  IF "complexity" \in DOMAIN func /\ func.complexity # 0 THEN func.complexity ELSE 1

\* extractFromFile(fileId, content, language)
extractEntities(t) ==
  IF t = <<>> THEN <<>>
  ELSE LET functions == extractFunctions(t)
       IN [n \in 1..Len(functions) |->
             [type |-> functions[n].type,
              start_line |-> functions[n].start_line,
              end_line |-> functions[n].end_line,
              complexity_score |-> complexityOr1(functions[n])]]

InitAst ==
  /\ InitPipeline
  /\ IdleBase
  /\ astRestIdle
  /\ \E n \in 0..MaxNodes : ast \in {t \in Asts(n) : WellFormed(t)}
  /\ extracted = <<>>

ExtractFromFile ==
  /\ extracted = <<>>
  /\ extracted' = <<extractEntities(ast)>>
  /\ UNCHANGED <<ast, pvars, baseAux, astRest>>

NextAst == ExtractFromFile

SpecAst == InitAst /\ [][NextAst]_vars


\* ------------------------------------------------------------------
\* CodeAnalyzer.analyzeRepo: the file loop over the selected rows, in the
\* order the database returns them (the select has no ORDER BY).

\* what the extractor and the scanner give for the rows of the catalogue
StoredRows ==
  { [file_path |-> "a.js", language |-> "javascript", entities |-> 1,
     severities |-> <<"critical", "medium">>],
    [file_path |-> "b.go", language |-> "go", entities |-> 0,
     severities |-> <<"high">>],
    [file_path |-> "c.py", language |-> "python", entities |-> 2,
     severities |-> <<>>],
    [file_path |-> "d.ts", language |-> "typescript", entities |-> 1,
     severities |-> <<"critical", "high", "low">>],
    [file_path |-> "README.md", language |-> "unknown", entities |-> 0,
     severities |-> <<"medium">>] }

Orders(n) ==
  {o \in [1..n -> StoredRows] : \A i, j \in 1..n : i # j => o[i] # o[j]}

\* scanFile's findings for a row
rowFindings(row) ==
  [n \in 1..Len(row.severities) |->
     [file_path |-> row.file_path, n |-> n, severity |-> row.severities[n]]]

\* (variant that keeps only the findings of the file scanned last)
analyzeRow_Replace(acc, row, fails) ==
  IF row.language = "unknown" THEN acc
  ELSE LET ents == IF row.language \in {"javascript", "typescript", "python"}
                      /\ row.entities > 0 /\ ~fails
                   THEN row.entities ELSE 0
           fs == IF fails THEN <<>> ELSE rowFindings(row)
       IN [totalEntities |-> acc.totalEntities + ents,
           totalFindings |-> acc.totalFindings + Len(fs),
           allFindings |-> IF fs # <<>> THEN fs ELSE acc.allFindings]

\* one turn of the loop `for (const file of files)`; a save that fails
\* throws into the catch of its block
analyzeRow(acc, row, fails) ==
  IF row.language = "unknown" THEN acc
  ELSE LET ents == IF row.language \in {"javascript", "typescript", "python"}
                      /\ row.entities > 0 /\ ~fails
                   THEN row.entities ELSE 0
           fs == IF fails THEN <<>> ELSE rowFindings(row)
       IN [totalEntities |-> acc.totalEntities + ents,
           totalFindings |-> acc.totalFindings + Len(fs),
           allFindings |-> acc.allFindings \o fs]

RECURSIVE analyzeRows(_, _, _)
analyzeRows(acc, rs, bad) ==
  IF rs = <<>> THEN acc
  ELSE analyzeRows(analyzeRow(acc, Head(rs), Head(rs).file_path \in bad),
                   Tail(rs), bad)

\* analyzeRepo from `let totalEntities = 0` to its return value
analyzeStored(rs, bad) ==
  LET acc == analyzeRows([totalEntities |-> 0, totalFindings |-> 0,
                          allFindings |-> <<>>], rs, bad)
  IN [success |-> TRUE,
      entities |-> acc.totalEntities,
      findings |-> acc.totalFindings,
      riskScore |-> calculateRiskScore(generateReport(Range(acc.allFindings)))]

InitOrder ==
  /\ InitPipeline
  /\ IdleBase
  /\ orderRestIdle
  /\ \E n \in 1..MaxRows : rows \in Orders(n)
  /\ faulty \in SUBSET {"a.js", "d.ts"}
  /\ outcome = <<>>

AnalyzeStored ==
  /\ outcome = <<>>
  /\ outcome' = <<analyzeStored(rows, faulty)>>
  /\ UNCHANGED <<rows, faulty, pvars, baseAux, orderRest>>

NextOrder == AnalyzeStored

SpecOrder == InitOrder /\ [][NextOrder]_vars


\* ------------------------------------------------------------------
\* middleware/security.js validators and cloneRepository's directory name.
\* A name is a sequence of characters; "a" stands for the alphanumerics.

NameChars == {"a", "-", "."}
alnum(c) == c = "a"
Names == UNION {[1..n -> NameChars] : n \in 0..MaxNameLen}

\* /^[a-zA-Z0-9][a-zA-Z0-9._-]{0,98}[a-zA-Z0-9]$/ and not /(\.{2}|[\/\\]|...)/
validateRepoName(name) ==
  /\ Len(name) >= 2 /\ Len(name) <= 100
  /\ alnum(name[1]) /\ alnum(name[Len(name)])
  /\ \A i \in 1..Len(name) : name[i] \in {"a", ".", "_", "-"}
  /\ ~\E i \in 1..(Len(name) - 1) : name[i] = "." /\ name[i + 1] = "."

\* /^[a-zA-Z0-9](?:[a-zA-Z0-9]|-(?=[a-zA-Z0-9])){0,38}$/
validateOwnerName(owner) ==
  /\ Len(owner) >= 1 /\ Len(owner) <= 39
  /\ alnum(owner[1])
  /\ \A i \in 2..Len(owner) :
        \/ alnum(owner[i])
        \/ owner[i] = "-" /\ i < Len(owner) /\ alnum(owner[i + 1])

Accepted ==
  {r \in [owner : Names, name : Names] :
     validateOwnerName(r.owner) /\ validateRepoName(r.name)}

\* const repoPath = path.join(CLONE_DIR, `${owner}-${name}`)
repoPath(owner, name) == owner \o <<"-">> \o name

InitPath ==
  /\ InitPipeline
  /\ IdleBase
  /\ pathRestIdle
  /\ accepted \in {p \in Accepted \X Accepted : p[1] # p[2]}
  /\ cloneDirs = <<>>

\* cloneRepository(owner, name), for each of the two
CloneDirs ==
  /\ cloneDirs = <<>>
  /\ cloneDirs' = [i \in 1..2 |-> repoPath(accepted[i].owner, accepted[i].name)]
  /\ UNCHANGED <<accepted, pvars, baseAux, pathRest>>

NextPath == CloneDirs

SpecPath == InitPath /\ [][NextPath]_vars


\* ------------------------------------------------------------------
\* One repository ingested again and again while its content changes on
\* GitHub: ingestRepository's store loop (every read and every upsert
\* succeeds) and the select of the analysis that follows.

RemoteFiles == {"a.js", "b.go", "c.py"}

\* .upsert({repo_id, file_path, ...}, {onConflict: 'repo_id,file_path'})
upsertFile(tbl, p, rev) ==
  {row \in tbl : row.file_path # p} \cup {[file_path |-> p, revision |-> rev]}

\* for (const file of files) ... storeFile(...): the files from `todo` on
RECURSIVE storeFiles(_, _, _)
storeFiles(tbl, todo, rev) ==
  IF todo = {} THEN tbl
  ELSE LET p == CHOOSE q \in todo : TRUE
       IN storeFiles(upsertFile(tbl, p, rev), todo \ {p}, rev)

InitReingest ==
  /\ InitPipeline
  /\ IdleBase
  /\ reingestRestIdle
  /\ remote \in SUBSET RemoteFiles
  /\ fileRows = {}
  /\ revision = 0
  /\ cloned = <<>>
  /\ analysed = <<>>

\* a push to the repository on GitHub adds or removes files
Push(t) ==
  /\ t # remote
  /\ remote' = t
  /\ UNCHANGED <<fileRows, revision, cloned, analysed, pvars, baseAux, reingestRest>>

\* ingestRepository, a run that succeeds: clone, getCodeFiles, store loop
Reingest ==
  /\ revision < MaxReingests
  /\ revision' = revision + 1
  /\ cloned' = <<remote>>
  /\ fileRows' = storeFiles(fileRows, remote, revision + 1)
  /\ analysed' = <<>>
  /\ UNCHANGED <<remote, pvars, baseAux, reingestRest>>

\* analyzeRepo: from('code_files').select('*').eq('repo_id', repoId), then
\* the loop over all of them
AnalyseRows ==
  /\ cloned # <<>>
  /\ analysed = <<>>
  /\ fileRows # {}
  /\ analysed' = <<{row.file_path : row \in fileRows}>>
  /\ UNCHANGED <<remote, fileRows, revision, cloned, pvars, baseAux, reingestRest>>

NextReingest ==
  \/ \E t \in SUBSET RemoteFiles : Push(t)
  \/ Reingest
  \/ AnalyseRows

SpecReingest == InitReingest /\ [][NextReingest]_vars

\* ------------------------------------------------------------- properties
Status(r) == repositories[r].analysis_status

\* C1: analysis_status only moves queued -> cloning -> parsing -> completed,
\* to failed only from cloning or parsing, and from completed or failed only
\* back to queued (the first queueing leaves the schema default 'pending').
LinearSteps ==
  {<<"pending", "queued">>, <<"queued", "cloning">>, <<"cloning", "parsing">>,
   <<"parsing", "completed">>, <<"cloning", "failed">>, <<"parsing", "failed">>,
   <<"completed", "queued">>, <<"failed", "queued">>}

C1_StatusLinear ==
  [][\A r \in Repos :
       \/ repositories'[r].analysis_status = repositories[r].analysis_status
       \/ <<repositories[r].analysis_status,
            repositories'[r].analysis_status>> \in LinearSteps]_vars

\* C2: a repository is completed only when the analysis of its run has
\* finished for every stored file and the risk score has been computed.
AnalysisPending(r) ==
  \/ \E h \in IngRuns : ing[h].repoId = r /\ ing[h].pc \in {"cleanup", "enqueue"}
  \/ \E j \in DOMAIN analysisQueue :
       analysisQueue[j].repoId = r /\ analysisQueue[j].state \in {"waiting", "active"}
  \/ \E a \in AnaRuns : ana[a].repoId = r /\ Running(ana, a)

C2_CompletedAfterAnalysis ==
  \A r \in Repos :
    Status(r) = "completed" =>
      /\ repositories[r].risk_score # <<>>
      /\ ~AnalysisPending(r)

\* C3: while an ingestion run holds its clone directory (from its clone to
\* its cleanup), no step of a run of another job changes that directory.
HoldsClone(h) == ing[h].pc \in {"parsing", "discover", "store", "cleanup"}

C3_CloneDirExclusive ==
  [][\A h, g \in IngRuns :
       (/\ h # g
        /\ HoldsClone(h)
        /\ ing'[h] = ing[h]
        /\ ing'[g] # ing[g]
        /\ ing[g].job # ing[h].job)
       => disk'[ing[h].repoPath] = disk[ing[h].repoPath]]_vars

\* C4: when an ingestion run has ended, the clone directory it created is gone.
C4_CloneDirRemoved ==
  \A h \in IngRuns :
    ing[h].pc = "done" => \A d \in Dirs : disk[d].by # h

\* C5: when a job times out the repository becomes failed, and the timed-out
\* job does not set it to completed afterwards.
C5_TimeoutFails ==
  [][/\ \A h \in IngRuns :
          /\ (~ing[h].timedOut /\ ing'[h].timedOut)
               => repositories'[ing[h].repoId].analysis_status = "failed"
          /\ (ing[h].timedOut /\ ing'[h] # ing[h])
               => (repositories'[ing[h].repoId].analysis_status = "completed"
                     => repositories[ing[h].repoId].analysis_status = "completed")
     /\ \A a \in AnaRuns :
          /\ (~ana[a].timedOut /\ ana'[a].timedOut)
               => repositories'[ana[a].repoId].analysis_status = "failed"
          /\ (ana[a].timedOut /\ ana'[a] # ana[a])
               => (repositories'[ana[a].repoId].analysis_status = "completed"
                     => repositories[ana[a].repoId].analysis_status = "completed")]_vars

\* C6: an ingestion job makes at most 3 attempts and an analysis job at most
\* 2, and when a job runs out of attempts the repository is failed with the
\* message of the last failed attempt as last_error.
Exhausted(q, j) == q[j].state = "failed"

C6_RetriesThenFailed ==
  [][/\ \A j \in JobIds :
          /\ repoQueue'[j].attemptsMade <= IngestAttempts
          /\ (~Exhausted(repoQueue, j) /\ Exhausted(repoQueue', j))
               => /\ repositories'[repoQueue[j].repoId].analysis_status = "failed"
                  /\ repositories'[repoQueue[j].repoId].last_error
                       = repoQueue'[j].failedReason
     /\ \A j \in DOMAIN analysisQueue :
          /\ analysisQueue'[j].attemptsMade <= AnalysisAttempts
          /\ (~Exhausted(analysisQueue, j) /\ Exhausted(analysisQueue', j))
               => /\ repositories'[analysisQueue[j].repoId].analysis_status = "failed"
                  /\ repositories'[analysisQueue[j].repoId].last_error
                       = analysisQueue'[j].failedReason]_vars

\* C7: a failed repository has a non-empty last_error, the message of the
\* error that caused this failure.
C7_FailedHasError ==
  \A r \in Repos :
    Status(r) = "failed" =>
      /\ repositories[r].last_error[3] # ""
      /\ repositories[r].last_error = failCause[r]

\* C7 witness: the first attempt failed with its own message, the retry
\* failed in the clone, and last_error is the retry's message.
C7_Witness ==
  \E r \in Repos :
    /\ Status(r) = "failed"
    /\ repositories[r].last_error = IngMsg(2, "clone failed")
    /\ requests = 1
    /\ timeouts = 0
    /\ code_files[r] = {}
    /\ repoQueue[1].attemptsMade = 2

\* C8: after any number of analysis runs the stored entities and findings
\* are those of one run: nothing of an earlier run is left beside them.
AnalysisIdle(r) == \A a \in AnaRuns : ana[a].repoId # r

C8_AnalysisIdempotent ==
  \A r \in Repos :
    (lastCompleted[r] # 0 /\ AnalysisIdle(r)) =>
      /\ \A f \in security_findings : f.repo = r => f.run = lastCompleted[r]
      /\ \A e \in code_entities : e.repo = r => e.run = lastCompleted[r]

\* C9: a non-null risk_score is the risk formula over the findings stored by
\* the analysis run that completed last, and over no other run's findings.
FindingsOfRun(r, a) == {f \in security_findings : f.repo = r /\ f.run = a}

C9_RiskFromLatestRun ==
  \A r \in Repos :
    repositories[r].risk_score # <<>> =>
      /\ lastCompleted[r] # 0
      /\ repositories[r].risk_score[1] =
           calculateRiskScore(generateReport(FindingsOfRun(r, lastCompleted[r])))

\* C9 witness: the second run has completed while the first run's findings
\* are still stored.
C9_Witness ==
  \E r \in Repos :
    /\ repositories[r].risk_score # <<>>
    /\ lastCompleted[r] = 2
    /\ FindingsOfRun(r, 1) # {}
    /\ FindingsOfRun(r, 2) # {}

\* C10: the score is min(100, 40 critical + 20 high + 5 medium + low): within
\* 0..100, never smaller when one count grows, and 100 for 3 critical alone.
Weighted(s) == 40 * s.critical + 20 * s.high + 5 * s.medium + s.low

C10_RiskFormula ==
  score # <<>> =>
    /\ score[1] \in 0..100
    /\ score[1] = IF Weighted(summary) > 100 THEN 100 ELSE Weighted(summary)
    /\ \A sev \in Severities :
         calculateRiskScore([summary EXCEPT ![sev] = @ + 1]) >= score[1]
    /\ (summary = [critical |-> 3, high |-> 0, medium |-> 0, low |-> 0]
          => score[1] = 100)

C10_Witness ==
  /\ summary = [critical |-> 3, high |-> 0, medium |-> 0, low |-> 0]
  /\ score = <<100>>

\* C11: a file longer than the stored-content cap is stored as exactly its
\* first 50,000 characters, and the scanner reports every rule match of the
\* full text, a match beyond the cap included.
C11_ScanPreTruncation ==
  (stage = "scanned" /\ file.chars > ContentCap) =>
     /\ stored[1].content = substring(file.content, ContentCap)
     /\ found = matchedLines(file.content)

\* C12: a file whose size exceeds the maximum file size for storage is
\* skipped: it never gets a code_files row.
C12_OverCapSkipped ==
  file.bytes > MAX_FILE_SIZE_BYTES => stored = <<>>

\* C13: every analysis run that completes appends exactly one row to
\* repo_metrics for its repository, and no step changes or removes a row
\* that is already there.
Completing(r) ==
  \E a \in AnaRuns : /\ ana[a].repoId = r
                     /\ ana[a].pc = "file"
                     /\ ana'[a].pc = "done"

C13_MetricPerRun ==
  [][\A r \in Repos :
       /\ Len(repo_metrics'[r]) = Len(repo_metrics[r]) + (IF Completing(r) THEN 1 ELSE 0)
       /\ \A i \in 1..Len(repo_metrics[r]) : repo_metrics'[r][i] = repo_metrics[r][i]]_vars

\* C14: never more ingestion handlers in progress than MAX_CONCURRENT_CLONES,
\* and never more analysis handlers in progress than MAX_CONCURRENT_ANALYSES.
ExecutingOf(q) == {e \in executing : jobs[e.job].queue = q}

C14_ConcurrencyLimits ==
  /\ Cardinality(ExecutingOf("repo-ingestion")) <= MAX_CONCURRENT_CLONES
  /\ Cardinality(ExecutingOf("code-analysis")) <= MAX_CONCURRENT_ANALYSES

\* C15: a file whose entity extraction or security scan fails does not end
\* the run: the loop goes on to the next file with the status untouched, the
\* file adds nothing but its own findings (none when its scan failed), and
\* after the last file the run writes completed with a risk score.
C15_FileFailureContained ==
  [][\A a \in AnaRuns :
       (ana[a].pc = "file" /\ ana'[a] # ana[a] /\ ana'[a].timedOut = ana[a].timedOut) =>
         IF ana[a].files # <<>>
         THEN /\ ana'[a].pc = "file"
              /\ ana'[a].files = Tail(ana[a].files)
              /\ repositories' = repositories
              /\ ana'[a].allFindings \in {ana[a].allFindings,
                                          ana[a].allFindings \cup scanFile(Head(ana[a].files))}
         ELSE /\ repositories'[ana[a].repoId].analysis_status = "completed"
              /\ repositories'[ana[a].repoId].risk_score # <<>>]_vars

\* C15 witness: a run has completed that analysed a.js (its entities are
\* stored) but got no findings from it because its scan failed, while the
\* next file (b.go) was scanned and makes the whole risk score.
C15_Witness ==
  \E r \in Repos :
    /\ Status(r) = "completed"
    /\ lastCompleted[r] # 0
    /\ repositories[r].risk_score = <<20>>
    /\ \E e \in code_entities : e.run = lastCompleted[r] /\ e.file = "a.js"
    /\ \E f \in security_findings : f.run = lastCompleted[r] /\ f.file = "b.go"
    /\ ~\E f \in security_findings : f.run = lastCompleted[r] /\ f.file = "a.js"

\* C16: the bus factor before the fractional adjustment is the smallest k
\* such that the k authors owning the most files own at least half of the
\* files between them.
OwnedBy(S) ==
  Cardinality({f \in DOMAIN fileOwnership : fileOwnership[f].primary_author \in S})

Owners == {fileOwnership[f].primary_author : f \in DOMAIN fileOwnership}

TopCovers(k) ==
  \E S \in SUBSET Owners :
    /\ Cardinality(S) = k
    /\ \A a \in S, b \in Owners \ S : OwnedBy({a}) >= OwnedBy({b})
    /\ 2 * OwnedBy(S) >= Cardinality(DOMAIN fileOwnership)

C16_BaseIsSmallestCover ==
  (busFactor # <<>> /\ DOMAIN fileOwnership # {}) =>
    LET k == baseBusFactor(fileOwnership).busFactor
    IN /\ k >= 1
       /\ TopCovers(k)
       /\ \A j \in 1..(k - 1) : ~TopCovers(j)

\* C16 witness: seven authors own one file each and the bus factor has been
\* computed; its base is 4 (7 / 2 rounded up).
C16_Witness ==
  /\ busFactor # <<>>
  /\ Cardinality(Owners) = 7
  /\ \A a \in Owners : OwnedBy({a}) = 1
  /\ baseBusFactor(fileOwnership).busFactor = 4

\* C17: when one author made every commit that touches a code file, and
\* there is such a commit, the reported bus factor is at most 1.5 and the
\* risk level is CRITICAL.
CodeCommitAuthors ==
  {c.author : c \in {d \in Range(parseLog(logData)) :
                       \E f \in Range(d.files) : isCodeFile(f)}}

C17_SingleAuthorCritical ==
  (gitResult # <<>> /\ fault = "none" /\ Cardinality(CodeCommitAuthors) = 1) =>
    /\ gitResult[1].value.bus_factor <= 15
    /\ gitResult[1].value.risk_level = "CRITICAL"

\* C17 witness: one author committed both code files and analyzeRepo has
\* returned.
C17_Witness ==
  /\ gitResult # <<>>
  /\ fault = "none"
  /\ Cardinality(CodeCommitAuthors) = 1
  /\ DOMAIN gitResult[1].value.file_ownership = {"a.js", "b.go"}

\* C18: for an ownership map with at least one file the reported risk level
\* is the level of the reported (rounded) score: up to 1.5 CRITICAL, up to
\* 2.5 HIGH, up to 4 MEDIUM, above that LOW.
LevelOfScore(tenths) ==
  IF tenths <= 15 THEN "CRITICAL"
  ELSE IF tenths <= 25 THEN "HIGH"
  ELSE IF tenths <= 40 THEN "MEDIUM"
  ELSE "LOW"

C18_LevelMatchesScore ==
  (busFactor # <<>> /\ DOMAIN fileOwnership # {}) =>
    busFactor[1].riskLevel = LevelOfScore(busFactor[1].score)

\* C18 witness: a score that got the partial credit and was rounded (seven
\* authors with one file each: 4 + 6/7, reported 4.9), level LOW.
C18_Witness ==
  /\ busFactor # <<>>
  /\ busFactor[1].score = 49
  /\ busFactor[1].riskLevel = "LOW"

\* C19: when a step of GitParser.analyzeRepo throws, the call returns
\* {bus_factor: 0, risk_level: 'UNKNOWN', error: message}; it never ends by
\* throwing.
C19_DegradedResult ==
  gitResult # <<>> =>
    /\ gitResult[1].ended = "return"
    /\ fault # "none" =>
         gitResult[1].value = [bus_factor |-> 0, risk_level |-> "UNKNOWN",
                               error |-> fault \o " failed"]

\* C19 witness: parseLog threw on a log with commits and the call has ended.
C19_Witness ==
  /\ gitResult # <<>>
  /\ fault = "parseLog"
  /\ Len(logData) > 1

\* C20: the confidence of every finding is 0.8, less 0.2 when the matched
\* line holds a test marker, less 0.3 when the trimmed line starts with //
\* or with *, and not below 0.3; so it lies between 0.3 and 0.8.
IsComment(line) ==
  \E i \in 1..Len(line) :
    /\ line[i] \in {"//", "*"}
    /\ \A k \in 1..(i - 1) : line[k] = " "

HasTestMarker(line) == \E i \in 1..Len(line) : line[i] \in {"test", "spec"}

ExpectedConfidence(line) ==
  LET v == 8 - (IF HasTestMarker(line) THEN 2 ELSE 0) - (IF IsComment(line) THEN 3 ELSE 0)
  IN IF v < 3 THEN 3 ELSE v

C20_Confidence ==
  matches # <<>> =>
    \A i \in 1..Len(matches[1]) :
      /\ matches[1][i].confidence = ExpectedConfidence(content[matches[1][i].line])
      /\ matches[1][i].confidence >= 3
      /\ matches[1][i].confidence <= 8

\* C20 witness: a match on a comment line that also holds a test
\* marker, reported with confidence 0.3.
C20_Witness ==
  /\ matches # <<>>
  /\ \E i \in 1..Len(matches[1]) :
       /\ matches[1][i].confidence = 3
       /\ HasTestMarker(content[matches[1][i].line])
       /\ IsComment(content[matches[1][i].line])

\* C21: the scanner reports exactly one finding for each (rule, line) pair
\* whose pattern matches that line and none for any other pair; every
\* finding's line_number is the 1-indexed position of its line, so it lies
\* in 1..number of lines; a line that matches several rules has one finding
\* per matching rule.
PatternMatches(k, i) ==
  \E p \in 1..Len(content[i]) : content[i][p] = rules[k].pattern

FindingsAt(k, i) ==
  {n \in 1..Len(scanned[1]) :
     /\ scanned[1][n].rule_id = rules[k].id
     /\ scanned[1][n].line_number = i}

C21_OneFindingPerRuleLine ==
  scanned # <<>> =>
    /\ \A k \in 1..Len(rules), i \in 1..Len(content) :
         Cardinality(FindingsAt(k, i)) = (IF PatternMatches(k, i) THEN 1 ELSE 0)
    /\ \A n \in 1..Len(scanned[1]) :
         /\ scanned[1][n].line_number \in 1..Len(content)
         /\ \E k \in 1..Len(rules) : scanned[1][n].rule_id = rules[k].id

C21_Witness ==
  /\ scanned # <<>>
  /\ Len(content) = 2
  /\ PatternMatches(1, 2) /\ PatternMatches(2, 2)
  /\ ~PatternMatches(1, 1) /\ ~PatternMatches(2, 1)
  /\ Len(scanned[1]) = 2
  /\ \A n \in 1..2 : scanned[1][n].line_number = 2

\* C22: no file under a dependency directory (node_modules, vendor), a
\* version-control directory (.git) or a build output directory (dist,
\* build), no minified file and no test/spec file is selected by ingestion.
UnderExcludedDir(path) ==
  \E i \in 1..Len(path.dirs) :
     path.dirs[i] \in {"node_modules", "vendor", ".git", "dist", "build"}

IsMinified(path) ==
  /\ Len(path.name) >= 3
  /\ path.name[Len(path.name) - 1] = "min"
  /\ path.name[Len(path.name)] \in {"js", "css"}

IsTestOrSpec(path) ==
  /\ Len(path.name) >= 3
  /\ path.name[Len(path.name) - 1] \in {"test", "spec"}

C22_ExcludedNeverSelected ==
  selected = <<TRUE>> =>
    /\ ~UnderExcludedDir(candidate)
    /\ ~IsMinified(candidate)
    /\ ~IsTestOrSpec(candidate)

\* C23: an ingestion run gets at most the maximum number of files per
\* repository (1000) to process; when more candidate files are discovered,
\* exactly the first-discovered 1000 are kept and the rest are dropped.
Discovered == discovered(tree, 1)

C23_FirstThousandKept ==
  files # <<>> =>
    LET all == Discovered
        kept == files[1]
    IN /\ Len(kept) = Min(Len(all), MAX_FILES_PER_REPO)
       /\ \A i \in 1..Len(kept) : kept[i] = all[i]

C23_Witness ==
  /\ files # <<>>
  /\ LET all == Discovered
         kept == files[1]
     IN /\ Len(all) > MAX_FILES_PER_REPO
        /\ Len(kept) = MAX_FILES_PER_REPO
        /\ kept[MAX_FILES_PER_REPO] = all[MAX_FILES_PER_REPO]
        /\ all[Len(all)] \notin Range(kept)

\* C24: every code entity produced by extraction, function or class, has
\* 1 <= start_line <= end_line and an integer complexity score >= 1; a class
\* entity, for which no complexity is computed, gets 1.
C24_EntityShape ==
  extracted # <<>> =>
    \A n \in 1..Len(extracted[1]) :
       LET e == extracted[1][n]
       IN /\ e.type \in {"function", "class"}
          /\ 1 <= e.start_line /\ e.start_line <= e.end_line
          /\ e.complexity_score \in Nat /\ e.complexity_score >= 1
          /\ e.type = "class" => e.complexity_score = 1

C24_Witness ==
  /\ extracted # <<>>
  /\ \E n, m \in 1..Len(extracted[1]) :
        /\ extracted[1][n].type = "class"
        /\ extracted[1][m].type = "function"
        /\ extracted[1][m].complexity_score = 2
        /\ extracted[1][m].start_line = extracted[1][m].end_line

\* C25: the risk score and the total entity and finding counts an analysis
\* run produces are the same for every order in which the repository's
\* stored files are processed.
Reorderings(rs) ==
  {o \in [1..Len(rs) -> Range(rs)] : Range(o) = Range(rs)}

C25_OrderIndependent ==
  outcome # <<>> =>
    \A o \in Reorderings(rows) :
       LET other == analyzeStored(o, faulty)
       IN /\ other.riskScore = outcome[1].riskScore
          /\ other.entities = outcome[1].entities
          /\ other.findings = outcome[1].findings

C25_Witness ==
  /\ outcome # <<>>
  /\ Len(rows) = 3
  /\ rows[1].file_path = "d.ts" /\ rows[3].file_path = "a.js"
  /\ faulty = {}
  /\ outcome[1] = [success |-> TRUE, entities |-> 2, findings |-> 5, riskScore |-> 100]

\* C26: an ingestion job run that succeeds enqueues exactly one analysis job
\* for the same repository, and an ingestion job run that fails enqueues
\* none: a run whose attempt Bull has failed (here by the job timeout) leaves
\* the analysis queue as it is when its handler ends.
C26_FailedRunEnqueuesNone ==
  [][\A h \in IngRuns :
       (Running(ing, h) /\ ing[h].timedOut /\ ~Running(ing', h))
          => analysisQueue' = analysisQueue]_vars

\* C27: two distinct repositories (different owner/name pairs, each accepted
\* by the owner and name validators) never get the same clone directory.
C27_DistinctCloneDirs ==
  cloneDirs # <<>> => cloneDirs[1] # cloneDirs[2]

\* C28: under fair scheduling of the workers, every repository that is put
\* into status queued eventually reaches completed or failed (or the run
\* uses up the handler executions this model allows).
OutOfRuns == IdleRuns(ing) = {}

C28_QueuedTerminates ==
  \A r \in Repos :
     (Status(r) = "queued") ~> (Status(r) \in {"completed", "failed"} \/ OutOfRuns)

\* C29: after a successful re-ingestion the repository's stored SourceFile
\* records are exactly the files selected from the latest clone, one record
\* per (repository, path); records of files that no longer exist do not
\* remain and are not analysed by the following analysis run.
C29_StoredIsLatestClone ==
  cloned # <<>> =>
    /\ {row.file_path : row \in fileRows} = cloned[1]
    /\ \A r1, r2 \in fileRows : r1.file_path = r2.file_path => r1 = r2
    /\ analysed # <<>> => analysed[1] = cloned[1]

\* C30: whenever there is at least one code file, the greedy loop ends with
\* coverage >= 50% of the code files, so the fractional adjustment (applied
\* only when coverage < 0.6) lies in (0.8, 1.0] and the reported bus-factor
\* score is >= 1 and never negative; the score is 0 only when there are no
\* code files.  (Scores are in tenths; the adjustment is
\* 2 * (total - covered) / total.)
C30_AdjustmentBounds ==
  busFactor # <<>> =>
    LET total == Cardinality(DOMAIN fileOwnership)
        covered == baseBusFactor(fileOwnership).filesCovered
        base == baseBusFactor(fileOwnership).busFactor
    IN /\ busFactor[1].score >= 0
       /\ busFactor[1].score = 0 <=> total = 0
       /\ total >= 1 =>
            /\ 2 * covered >= total /\ covered <= total
            /\ 10 * covered < 6 * total =>
                 /\ 10 * 2 * (total - covered) > 8 * total
                 /\ 2 * (total - covered) <= total
                 /\ busFactor[1].score > 10 * base
            /\ 10 * covered >= 6 * total => busFactor[1].score = 10 * base
            /\ busFactor[1].score >= 10
            /\ busFactor[1].score <= 10 * (base + 1)

\* C30 witness: seven files, two authors with two files each and three with
\* one: the loop stops at 4/7 with two authors and the adjustment 6/7 makes
\* the score 2.9.
C30_Witness ==
  /\ busFactor # <<>>
  /\ Cardinality(DOMAIN fileOwnership) = 7
  /\ baseBusFactor(fileOwnership) = [filesCovered |-> 4, busFactor |-> 2]
  /\ busFactor[1].score = 29

====
